---------------------------- MODULE Spec2Model ----------------------------
(***************************************************************************)
(* A model of pysingfel.detector.base.DetectorBase: the derived            *)
(* reciprocal geometry and its initializer, the pattern-synthesis          *)
(* wrappers, the correction / quantization pipeline, the calibration       *)
(* accessors, the particle placement (distribute), the coherent FXS        *)
(* synthesis and the reciprocal-mesh sizing.                               *)
(*                                                                         *)
(* Numbers are exact integers.  Lengths are counted in grid units, phases  *)
(* in quarter turns, and the Thomson factor in units of 1e-32 m^2.  Python *)
(* None is the empty sequence; a call yields Ok(value) or Err(exception).  *)
(***************************************************************************)
EXTENDS Integers, Sequences, FiniteSets, TLC

VARIABLES
    \* ---- the detector object (self) ----
    pixel_position_reciprocal,   \* base.py:40
    pixel_distance_reciprocal,   \* base.py:41
    solid_angle_per_pixel,       \* base.py:49
    polarization_correction,     \* base.py:50
    linear_correction,           \* base.py:63
    attrs,                       \* the private calibration attributes, base.py:66-71
    pixel_width,                 \* base.py:28
    pixel_height,                \* base.py:29
    distance,                    \* base.py:27
    \* ---- a running initialize_pixels_with_beam call ----
    initPc,                      \* 0: no call in progress; 1..5: the next store
    initLocal,                   \* its locals: the beam, intensity and the tuple
    \* ---- the last completed call of another operation ----
    out,                         \* [op, arg, draw, result]
    kernelArg,                   \* reciprocal geometry handed to the kernel last
    \* ---- distribute / get_fxs_photons ----
    entry,                       \* which of the two was called
    particles,                   \* the species -> count mapping, in dict order
    beam_focus_radius,
    jet_radius,
    stack,                       \* the frames of distribute, innermost last
    samples,                     \* candidate sets sampled since the call
    placed,                      \* what the outermost distribute returned
    fxs,                         \* what get_fxs_photons handed on and returned
    \* ---- preferred_reciprocal_mesh_number ----
    wave_vector,
    mesh

detVars   == <<pixel_position_reciprocal, pixel_distance_reciprocal,
               solid_angle_per_pixel, polarization_correction,
               linear_correction, attrs, pixel_width, pixel_height, distance>>
initVars  == <<initPc, initLocal>>
callVars  == <<out, kernelArg>>
placeVars == <<entry, particles, beam_focus_radius, jet_radius, stack, samples,
               placed, fxs>>
meshVars  == <<wave_vector, mesh>>
vars      == <<detVars, initVars, callVars, placeVars, meshVars>>

---------------------------------------------------------------------------
(* Bounds and program constants *)

\* Number of detector pixels of the modelled geometry.
NPix == 2
\* Depth at which the interpreter refuses another frame of distribute
\* (sys.getrecursionlimit(), scaled down).
RecursionLimit == 2
\* Thomson scattering factor 2.817895019671143^2 * 1e-30, in units of 1e-32.
Thomson_factor == 794

Pixels == 1..NPix
\* Python's None.  Every array of the model is non-empty, so the empty
\* sequence is free to stand for it.
None   == <<>>
\* A call either returns a value or raises an exception.
Ok(v)  == [ok |-> TRUE,  val |-> v,    err |-> ""]
Err(t) == [ok |-> FALSE, val |-> None, err |-> t]
\* A call that has not returned yet.
NotYet == [ok |-> FALSE, val |-> None, err |-> "pending"]

---------------------------------------------------------------------------
(* Vectors, complex numbers *)

Dot(a, b) == a[1] * b[1] + a[2] * b[2] + a[3] * b[3]
NormSq(a) == Dot(a, a)
Sub(a, b) == <<a[1] - b[1], a[2] - b[2], a[3] - b[3]>>

\* Complex numbers are pairs <<re, im>> of integers.
CAdd(a, b) == <<a[1] + b[1], a[2] + b[2]>>
CMul(a, b) == <<a[1] * b[1] - a[2] * b[2], a[1] * b[2] + a[2] * b[1]>>
CAbsSq(a)  == a[1] * a[1] + a[2] * a[2]
\* exp(i * 2 * pi * k / 4): the phase of k quarter turns.
CExp(k) == CASE k % 4 = 0 -> <<1, 0>>
             [] k % 4 = 1 -> <<0, 1>>
             [] k % 4 = 2 -> <<-1, 0>>
             [] OTHER     -> <<0, -1>>

RECURSIVE SumSeq(_)
SumSeq(s) == IF s = <<>> THEN 0 ELSE s[1] + SumSeq(Tail(s))

\* The integer square root of a perfect square.
Sqrt(n) == CHOOSE r \in 0..n : r * r = n

---------------------------------------------------------------------------
(* External collaborators: the beam, the particle models, the geometry     *)
(* routine, the diffraction kernel and numpy's Poisson sampler.            *)

\* Beams: wavevector, polarization, photons per pulse, focus area.
Beams == { [wavevector |-> <<0, 0, 1>>, Polarization |-> "x",
            photons_per_pulse |-> 4, focus_area |-> 2],
           [wavevector |-> <<0, 0, 2>>, Polarization |-> "y",
            photons_per_pulse |-> 6, focus_area |-> 2] }

\* Particle models: the atomic positions (particle.atom_pos).
atom_pos(p) == CASE p = "A" -> << <<0, 0, 0>> >>
                 [] p = "B" -> << <<0, 0, 0>>, <<2, 0, 0>> >>
Species == {"A", "B"}

\* The detector's real-space pixel positions (self.pixel_position) and area,
\* which DetectorBase leaves at None and 0 for the concrete detector to set:
\* a row of pixels at unit distance, each of unit area.
pixel_position == [p \in Pixels |-> <<p, 0, 1>>]
pixel_area == 1

\* pg.get_reciprocal_position_and_correction: the reciprocal position of a
\* pixel scales with |k| and its transverse position; the polarization
\* correction depends on the polarization axis; the solid angle on the
\* geometry alone.
get_reciprocal_position_and_correction(pos, polar, wv, area, orient) ==
    LET k == Sqrt(NormSq(wv))
        ppr == [p \in DOMAIN pos |-> <<k * pos[p][1], k * pos[p][2], 0>>]
    IN  [ppr |-> ppr,
         pdr |-> [p \in DOMAIN pos |-> Sqrt(NormSq(ppr[p]))],
         pol |-> [p \in DOMAIN pos |-> IF polar = "x" THEN 1 + pos[p][1] ELSE 1 + pos[p][2]],
         sa  |-> [p \in DOMAIN pos |-> area * (1 + Dot(pos[p], orient))]]

\* pgd.calculate_diffraction_pattern_gpu: the structure factor of the
\* particle at each reciprocal position, or its squared magnitude.  Handed
\* None for the positions, the kernel itself fails.
RECURSIVE StructureFactor(_, _)
StructureFactor(q, atoms) ==
    IF atoms = <<>> THEN <<0, 0>>
    ELSE CAdd(CExp(Dot(q, atoms[1])), StructureFactor(q, Tail(atoms)))

calculate_diffraction_pattern_gpu(ppr, particle, return_type) ==
    IF ppr = None THEN Err("KernelError")
    ELSE IF return_type = "complex_field"
         THEN Ok([p \in DOMAIN ppr |-> StructureFactor(ppr[p], atom_pos(particle))])
         ELSE Ok([p \in DOMAIN ppr |-> CAbsSq(StructureFactor(ppr[p], atom_pos(particle)))])

\* np.random.poisson, element by element: the count drawn for mean lam when
\* the generator yields u.  A mean of 0 always gives 0.
PoissonDraws == {0, 1}
poisson(lam, u) == [p \in DOMAIN lam |-> IF lam[p] = 0 THEN 0 ELSE lam[p] - 1 + 2 * u[p]]

\* np.multiply of two arrays of the pixel shape.
multiply(a, b) ==
    IF a = None \/ b = None THEN Err("TypeError")
    ELSE Ok([p \in DOMAIN a |-> a[p] * b[p]])

---------------------------------------------------------------------------
(* The detector object *)

self == [pixel_position_reciprocal |-> pixel_position_reciprocal,
         pixel_distance_reciprocal |-> pixel_distance_reciprocal,
         solid_angle_per_pixel     |-> solid_angle_per_pixel,
         polarization_correction   |-> polarization_correction,
         linear_correction         |-> linear_correction]

orientation == <<0, 0, 1>>

\* A Python number: an int or a float of value v.
PyInt(v)   == [int |-> TRUE,  v |-> v]
PyFloat(v) == [int |-> FALSE, v |-> v]

\* __init__: the private calibration attributes it sets.
InitAttrs == [n \in {"_pedestal", "_pixel_rms", "_pixel_bkgd", "_pixel_status",
                     "_pixel_mask", "_pixel_gain"} |-> 0]

\* The property accessors: the private attribute each one returns.
AccessorField == [pedestals    |-> "_pedestals",
                  pixel_rms    |-> "_pixel_rms",
                  pixel_mask   |-> "_pixel_mask",
                  pixel_bkgd   |-> "_pixel_bkgd",
                  pixel_status |-> "_pixel_status",
                  pixel_gain   |-> "_pixel_gain"]
Accessors == DOMAIN AccessorField

\* Reading a property: the attribute lookup fails when the object has no
\* attribute of that name.
read_property(a, name) ==
    IF AccessorField[name] \in DOMAIN a THEN Ok(a[AccessorField[name]])
    ELSE Err("AttributeError")

\* ---- pattern synthesis ----
get_pattern_without_corrections(slf, particle, return_type) ==
    calculate_diffraction_pattern_gpu(slf.pixel_position_reciprocal, particle, return_type)

get_intensity_field(slf, particle) ==
    LET diffraction_pattern ==
            calculate_diffraction_pattern_gpu(slf.pixel_position_reciprocal,
                                              particle, "intensity")
    IN  IF diffraction_pattern.ok
        THEN multiply(diffraction_pattern.val, slf.linear_correction)
        ELSE diffraction_pattern

\* ---- correction and quantization ----
add_solid_angle_correction(slf, pattern) == multiply(pattern, slf.solid_angle_per_pixel)

add_polarization_correction(slf, pattern) == multiply(pattern, slf.polarization_correction)

add_correction(slf, pattern) == multiply(pattern, slf.linear_correction)

add_quantization(slf, pattern, u) == Ok(poisson(pattern, u))

\* A variant of the combined call that quantizes the uncorrected pattern.
add_correction_and_quantization_Uncorrected(slf, pattern, u) == Ok(poisson(pattern, u))

add_correction_and_quantization(slf, pattern, u) ==
    LET mean == multiply(pattern, slf.linear_correction)
    IN  IF mean.ok THEN Ok(poisson(mean.val, u)) ELSE mean

\* The batch variants: linear_correction[np.newaxis] fails on None, and
\* otherwise broadcasts over the leading batch dimension.
add_correction_batch(slf, pattern_batch) ==
    IF slf.linear_correction = None THEN Err("TypeError")
    ELSE Ok([b \in DOMAIN pattern_batch |->
                multiply(pattern_batch[b], slf.linear_correction).val])

add_quantization_batch(slf, pattern_batch, u) ==
    Ok([b \in DOMAIN pattern_batch |-> poisson(pattern_batch[b], u[b])])

add_correction_and_quantization_batch(slf, pattern_batch, u) ==
    IF slf.linear_correction = None THEN Err("TypeError")
    ELSE Ok([b \in DOMAIN pattern_batch |->
                poisson(multiply(pattern_batch[b], slf.linear_correction).val, u[b])])

get_photons(slf, particle, u) ==
    LET raw_data == get_pattern_without_corrections(slf, particle, "intensity")
    IN  IF raw_data.ok THEN add_correction_and_quantization(slf, raw_data.val, u)
        ELSE raw_data

---------------------------------------------------------------------------
(* Inputs of the detector operations *)

Patterns == { [p \in Pixels |-> 0], [p \in Pixels |-> p], [p \in Pixels |-> 2] }
Draws    == [Pixels -> PoissonDraws]
Batches  == { <<a>> : a \in Patterns } \cup { <<a, [p \in Pixels |-> p]>> : a \in Patterns }
BatchDraws(batch) == [DOMAIN batch -> { [p \in Pixels |-> 0], [p \in Pixels |-> p % 2] }]

NoCall == [op |-> "", arg |-> None, draw |-> None, result |-> Ok(None)]
Call(op, arg, draw, result) == [op |-> op, arg |-> arg, draw |-> draw, result |-> result]

---------------------------------------------------------------------------
(* initialize_pixels_with_beam: the right-hand sides are evaluated, then   *)
(* the four targets of the tuple assignment are stored one after another,  *)
(* then linear_correction is computed from the stored fields and stored.   *)

InitializeCall(beam) ==
    /\ initPc = 0
    /\ initLocal' = [beam |-> beam,
                     intensity |-> beam.photons_per_pulse \div beam.focus_area,
                     t |-> get_reciprocal_position_and_correction(
                               pixel_position, beam.Polarization, beam.wavevector,
                               pixel_area, orientation)]
    /\ initPc' = 1
    /\ UNCHANGED <<detVars, callVars, placeVars, meshVars>>

InitStorePosition ==
    /\ initPc = 1
    /\ pixel_position_reciprocal' = initLocal.t.ppr
    /\ initPc' = 2
    /\ UNCHANGED <<pixel_distance_reciprocal, solid_angle_per_pixel,
                   polarization_correction, linear_correction, attrs,
                   pixel_width, pixel_height, distance,
                   initLocal, callVars, placeVars, meshVars>>

InitStoreDistance ==
    /\ initPc = 2
    /\ pixel_distance_reciprocal' = initLocal.t.pdr
    /\ initPc' = 3
    /\ UNCHANGED <<pixel_position_reciprocal, solid_angle_per_pixel,
                   polarization_correction, linear_correction, attrs,
                   pixel_width, pixel_height, distance,
                   initLocal, callVars, placeVars, meshVars>>

InitStorePolarization ==
    /\ initPc = 3
    /\ polarization_correction' = initLocal.t.pol
    /\ initPc' = 4
    /\ UNCHANGED <<pixel_position_reciprocal, pixel_distance_reciprocal,
                   solid_angle_per_pixel, linear_correction, attrs,
                   pixel_width, pixel_height, distance,
                   initLocal, callVars, placeVars, meshVars>>

InitStoreSolidAngle ==
    /\ initPc = 4
    /\ solid_angle_per_pixel' = initLocal.t.sa
    /\ initPc' = 5
    /\ UNCHANGED <<pixel_position_reciprocal, pixel_distance_reciprocal,
                   polarization_correction, linear_correction, attrs,
                   pixel_width, pixel_height, distance,
                   initLocal, callVars, placeVars, meshVars>>

\* A variant that keeps a linear correction computed earlier.
InitStoreLinear_KeepsStale ==
    /\ initPc = 5
    /\ linear_correction' =
           IF linear_correction # None THEN linear_correction
           ELSE [p \in Pixels |-> initLocal.intensity * Thomson_factor *
                    multiply(polarization_correction, solid_angle_per_pixel).val[p]]
    /\ initPc' = 0
    /\ initLocal' = None
    /\ UNCHANGED <<pixel_position_reciprocal, pixel_distance_reciprocal,
                   solid_angle_per_pixel, polarization_correction, attrs,
                   pixel_width, pixel_height, distance,
                   callVars, placeVars, meshVars>>

InitStoreLinear ==
    /\ initPc = 5
    /\ linear_correction' =
           [p \in Pixels |-> initLocal.intensity * Thomson_factor *
                 multiply(polarization_correction, solid_angle_per_pixel).val[p]]
    /\ initPc' = 0
    /\ initLocal' = None
    /\ UNCHANGED <<pixel_position_reciprocal, pixel_distance_reciprocal,
                   solid_angle_per_pixel, polarization_correction, attrs,
                   pixel_width, pixel_height, distance,
                   callVars, placeVars, meshVars>>

---------------------------------------------------------------------------
(* The other operations of the detector, each callable at any time.        *)

Returns(op, arg, draw, result) ==
    /\ out' = Call(op, arg, draw, result)
    /\ UNCHANGED <<detVars, initVars, placeVars, meshVars>>

GetPatternWithoutCorrections ==
    \E particle \in Species, return_type \in {"intensity", "complex_field"} :
        /\ kernelArg' = [called |-> TRUE, arg |-> pixel_position_reciprocal]
        /\ Returns("get_pattern_without_corrections", <<particle, return_type>>, None,
                   get_pattern_without_corrections(self, particle, return_type))

GetIntensityField ==
    \E particle \in Species :
        /\ kernelArg' = [called |-> TRUE, arg |-> pixel_position_reciprocal]
        /\ Returns("get_intensity_field", particle, None,
                   get_intensity_field(self, particle))

GetPhotons ==
    \E particle \in Species, u \in Draws :
        /\ kernelArg' = [called |-> TRUE, arg |-> pixel_position_reciprocal]
        /\ Returns("get_photons", particle, u, get_photons(self, particle, u))

AddSolidAngleCorrection ==
    \E pattern \in Patterns :
        /\ UNCHANGED kernelArg
        /\ Returns("add_solid_angle_correction", pattern, None,
                   add_solid_angle_correction(self, pattern))

AddPolarizationCorrection ==
    \E pattern \in Patterns :
        /\ UNCHANGED kernelArg
        /\ Returns("add_polarization_correction", pattern, None,
                   add_polarization_correction(self, pattern))

AddCorrection ==
    \E pattern \in Patterns :
        /\ UNCHANGED kernelArg
        /\ Returns("add_correction", pattern, None, add_correction(self, pattern))

AddQuantization ==
    \E pattern \in Patterns, u \in Draws :
        /\ UNCHANGED kernelArg
        /\ Returns("add_quantization", pattern, u, add_quantization(self, pattern, u))

AddCorrectionAndQuantization ==
    \E pattern \in Patterns, u \in Draws :
        /\ UNCHANGED kernelArg
        /\ Returns("add_correction_and_quantization", pattern, u,
                   add_correction_and_quantization(self, pattern, u))

AddCorrectionBatch ==
    \E batch \in Batches :
        /\ UNCHANGED kernelArg
        /\ Returns("add_correction_batch", batch, None,
                   add_correction_batch(self, batch))

AddQuantizationBatch ==
    \E batch \in Batches : \E u \in BatchDraws(batch) :
        /\ UNCHANGED kernelArg
        /\ Returns("add_quantization_batch", batch, u,
                   add_quantization_batch(self, batch, u))

AddCorrectionAndQuantizationBatch ==
    \E batch \in Batches : \E u \in BatchDraws(batch) :
        /\ UNCHANGED kernelArg
        /\ Returns("add_correction_and_quantization_batch", batch, u,
                   add_correction_and_quantization_batch(self, batch, u))

ReadAccessor ==
    \E name \in Accessors :
        /\ UNCHANGED kernelArg
        /\ Returns(name, None, None, read_property(attrs, name))

---------------------------------------------------------------------------
(* The detector's specification: construction, then any interleaving of    *)
(* one initializer at a time with the other operations.                    *)

PlaceIdle ==
    /\ entry = "" /\ particles = <<>> /\ beam_focus_radius = 0 /\ jet_radius = 0
    /\ stack = <<>> /\ samples = 0 /\ placed = NotYet /\ fxs = NotYet

MeshIdle == wave_vector = None /\ mesh = [op |-> "", result |-> NotYet]

Constructed ==
    /\ pixel_position_reciprocal = None
    /\ pixel_distance_reciprocal = None
    /\ solid_angle_per_pixel = None
    /\ polarization_correction = None
    /\ linear_correction = None
    /\ attrs = InitAttrs
    /\ pixel_width = PyInt(0) /\ pixel_height = PyInt(0) /\ distance = 1
    /\ initPc = 0 /\ initLocal = None
    /\ out = NoCall
    /\ kernelArg = [called |-> FALSE, arg |-> None]

Init == Constructed /\ PlaceIdle /\ MeshIdle

Next ==
    \/ \E beam \in Beams : InitializeCall(beam)
    \/ InitStorePosition
    \/ InitStoreDistance
    \/ InitStorePolarization
    \/ InitStoreSolidAngle
    \/ InitStoreLinear
    \/ GetPatternWithoutCorrections
    \/ GetIntensityField
    \/ GetPhotons
    \/ AddSolidAngleCorrection
    \/ AddPolarizationCorrection
    \/ AddCorrection
    \/ AddQuantization
    \/ AddCorrectionAndQuantization
    \/ AddCorrectionBatch
    \/ AddQuantizationBatch
    \/ AddCorrectionAndQuantizationBatch
    \/ ReadAccessor

Spec == Init /\ [][Next]_vars

---------------------------------------------------------------------------
(* Particle placement: maxRadius and distribute.                           *)

\* The dict order of the species and their counts: a sequence of
\* <<species, count>> pairs with distinct species.
Keys(ps)   == [k \in DOMAIN ps |-> ps[k][1]]
Values(ps) == [k \in DOMAIN ps |-> ps[k][2]]

\* Lines 291-294: range(count) is empty for a count <= 0.
RECURSIVE Repeat(_, _)
Repeat(x, n) == IF n <= 0 THEN <<>> ELSE <<x>> \o Repeat(x, n - 1)

RECURSIVE ExpandState(_)
ExpandState(ps) ==
    IF ps = <<>> THEN <<>>
    ELSE Repeat(ps[1][1], ps[1][2]) \o ExpandState(Tail(ps))

\* Line 281: the rows of atom_pos - mean(atom_pos), each scaled by the
\* number of atoms n so that it stays integral: n * row = n * atom - sum.
RECURSIVE VecSum(_)
VecSum(rows) ==
    IF rows = <<>> THEN <<0, 0, 0>>
    ELSE LET r == VecSum(Tail(rows))
         IN  <<rows[1][1] + r[1], rows[1][2] + r[2], rows[1][3] + r[3]>>

radius_arr(particle) ==
    LET pos == atom_pos(particle)
        n   == Len(pos)
        sum == VecSum(pos)
    IN  [k \in DOMAIN pos |-> <<n * pos[k][1] - sum[1], n * pos[k][2] - sum[2],
                                 n * pos[k][3] - sum[3]>>]

\* A squared radius is the fraction <<num, den>>.  Lines 282-285: the running
\* maximum over the rows of one particle; sqrt is monotone, so comparing the
\* squares compares the radii.
RECURSIVE MaxOverRows(_, _, _)
MaxOverRows(rows, n, radius_current) ==
    IF rows = <<>> THEN radius_current
    ELSE LET radius == <<NormSq(rows[1]), n * n>>
         IN  MaxOverRows(Tail(rows), n,
                 IF radius[1] * radius_current[2] > radius_current[1] * radius[2]
                 THEN radius ELSE radius_current)

\* Lines 277-287: every key of the mapping counts, whatever its count.
RECURSIVE MaxOverSpecies(_, _)
MaxOverSpecies(keys, radius_current) ==
    IF keys = <<>> THEN radius_current
    ELSE MaxOverSpecies(Tail(keys),
             MaxOverRows(radius_arr(keys[1]), Len(atom_pos(keys[1])), radius_current))

maxRadius(ps) == MaxOverSpecies(Keys(ps), <<0, 1>>)

\* Line 296.
TotalN(ps) == SumSeq(Values(ps))

\* Lines 299-302: np.random.uniform(-1, 1) on a grid of the half-open
\* interval, scaled by the two radii.
UniformDraws == {-1, 0}
Positions(bfr, jr) ==
    { <<bfr * ux, bfr * uy, jr * uz>> : ux \in UniformDraws, uy \in UniformDraws,
                                        uz \in UniformDraws }
Candidates(n, bfr, jr) == [1..n -> Positions(bfr, jr)]

\* Lines 304-306: dist < 2 * radius_max, on the squares.
Collides(a, b, radius_max) ==
    NormSq(Sub(a, b)) * radius_max[2] < 4 * radius_max[1]

\* A variant of the pair test that also takes the diagonal j = i.
AnyCollision_WithDiagonal(coords, n, radius_max) ==
    \E i \in 1..n : \E j \in 1..n : j >= i /\ Collides(coords[i], coords[j], radius_max)

\* Lines 307-308: the pairs j > i of range(N).
AnyCollision(coords, n, radius_max) ==
    \E i \in 1..n : \E j \in 1..n : j > i /\ Collides(coords[i], coords[j], radius_max)

\* The inputs of distribute.
ParticleInputs ==
    { << <<"A", 1>> >>, << <<"B", 1>> >>, << <<"A", 2>> >>, << <<"B", 2>> >>,
      << <<"A", 1>>, <<"B", 1>> >>, << <<"A", 0>>, <<"B", 1>> >>,
      << <<"A", 2>>, <<"B", -1>> >>, << <<"B", -1>> >> }
RadiusInputs == { <<1, 1>>, <<1, 2>> }

Frame(pc, coords) == [pc |-> pc, coords |-> coords]
Top == stack[Len(stack)]
SetTop(f) == [stack EXCEPT ![Len(stack)] = f]

\* A call of distribute from outside.
CallDistribute ==
    /\ entry = ""
    /\ entry' = "distribute"
    /\ stack' = <<Frame("entered", None)>>
    /\ UNCHANGED <<particles, beam_focus_radius, jet_radius, samples, placed, fxs,
                   detVars, initVars, callVars, meshVars>>

\* get_fxs_photons, line 315: its call of distribute.
CallGetFxsPhotons ==
    /\ entry = ""
    /\ entry' = "get_fxs_photons"
    /\ stack' = <<Frame("entered", None)>>
    /\ UNCHANGED <<particles, beam_focus_radius, jet_radius, samples, placed, fxs,
                   detVars, initVars, callVars, meshVars>>

\* Line 297: np.zeros((N, 3)) raises for a negative N; the exception leaves
\* every frame.
DistributeNegativeShape ==
    /\ stack # <<>> /\ Top.pc = "entered"
    /\ TotalN(particles) < 0
    /\ stack' = <<>>
    /\ placed' = Err("ValueError")
    /\ UNCHANGED <<entry, particles, beam_focus_radius, jet_radius, samples, fxs,
                   detVars, initVars, callVars, meshVars>>

\* Lines 291-308 with no colliding pair: the frame goes on to line 310.
DistributeSampleFree ==
    /\ stack # <<>> /\ Top.pc = "entered"
    /\ TotalN(particles) >= 0
    /\ \E coords \in Candidates(TotalN(particles), beam_focus_radius, jet_radius) :
        /\ ~AnyCollision(coords, TotalN(particles), maxRadius(particles))
        /\ stack' = SetTop(Frame("return", coords))
    /\ samples' = samples + 1
    /\ UNCHANGED <<entry, particles, beam_focus_radius, jet_radius, placed, fxs,
                   detVars, initVars, callVars, meshVars>>

\* Lines 291-309 with a colliding pair: the frame calls distribute again and
\* waits for it, keeping its own coords.
DistributeSampleCollided ==
    /\ stack # <<>> /\ Top.pc = "entered"
    /\ TotalN(particles) >= 0
    /\ Len(stack) < RecursionLimit
    /\ \E coords \in Candidates(TotalN(particles), beam_focus_radius, jet_radius) :
        /\ AnyCollision(coords, TotalN(particles), maxRadius(particles))
        /\ stack' = Append(SetTop(Frame("waiting", coords)), Frame("entered", None))
    /\ samples' = samples + 1
    /\ UNCHANGED <<entry, particles, beam_focus_radius, jet_radius, placed, fxs,
                   detVars, initVars, callVars, meshVars>>

\* The same at the interpreter's recursion limit: the call at line 309
\* raises RecursionError, which no frame catches.
DistributeRecursionError ==
    /\ stack # <<>> /\ Top.pc = "entered"
    /\ TotalN(particles) >= 0
    /\ Len(stack) >= RecursionLimit
    /\ \E coords \in Candidates(TotalN(particles), beam_focus_radius, jet_radius) :
        AnyCollision(coords, TotalN(particles), maxRadius(particles))
    /\ samples' = samples + 1
    /\ stack' = <<>>
    /\ placed' = Err("RecursionError")
    /\ UNCHANGED <<entry, particles, beam_focus_radius, jet_radius, fxs,
                   detVars, initVars, callVars, meshVars>>

\* Line 310: the frame returns (state, coords) with its own coords.  Its
\* caller, waiting at line 309, drops the value and goes on to line 310.
DistributeReturn ==
    /\ stack # <<>> /\ Top.pc = "return"
    /\ IF Len(stack) = 1
       THEN /\ stack' = <<>>
            /\ placed' = Ok([state |-> ExpandState(particles), coords |-> Top.coords])
       ELSE /\ stack' = [SubSeq(stack, 1, Len(stack) - 1) EXCEPT ![Len(stack) - 1] =
                            Frame("return", stack[Len(stack) - 1].coords)]
            /\ UNCHANGED placed
    /\ UNCHANGED <<entry, particles, beam_focus_radius, jet_radius, samples, fxs,
                   detVars, initVars, callVars, meshVars>>

---------------------------------------------------------------------------
(* get_fxs_photons, lines 316-323.                                         *)

\* Line 318: this_data *= exp(1j * 2 * pi * 1e-10 * dot(q, coord)); the
\* product 1e-10 * dot(q, coord) is counted in quarter turns.
PhaseShift(slf, this_data, coord) ==
    [p \in DOMAIN this_data |->
        CMul(this_data[p], CExp(Dot(slf.pixel_position_reciprocal[p], coord)))]

\* Lines 316-322 from particle i on, raw_data being the sum so far (None
\* before the first particle).
RECURSIVE FxsLoop(_, _, _, _, _)
FxsLoop(slf, state, coords, i, raw_data) ==
    IF i > Len(state) THEN Ok(raw_data)
    ELSE LET this_data == get_pattern_without_corrections(slf, state[i], "complex_field")
         IN  IF ~this_data.ok THEN this_data
             ELSE IF i > Len(coords) THEN Err("IndexError")
             ELSE LET shifted == PhaseShift(slf, this_data.val, coords[i])
                  IN  FxsLoop(slf, state, coords, i + 1,
                          IF raw_data = None THEN shifted
                          ELSE [p \in DOMAIN shifted |-> CAdd(raw_data[p], shifted[p])])

\* A variant that adds the particles' intensities instead of their fields.
RECURSIVE IncoherentSum(_, _, _)
IncoherentSum(slf, state, i) ==
    IF i = 0 THEN [p \in Pixels |-> 0]
    ELSE LET rest == IncoherentSum(slf, state, i - 1)
             this == get_pattern_without_corrections(slf, state[i], "complex_field").val
         IN  [p \in Pixels |-> rest[p] + CAbsSq(this[p])]

FxsIntensity_Incoherent(slf, state, coords) == Ok(IncoherentSum(slf, state, Len(state)))

\* Line 323: np.square(np.abs(raw_data)); np.abs(None) raises.
FxsIntensity(slf, state, coords) ==
    LET raw_data == FxsLoop(slf, state, coords, 1, None)
    IN  IF ~raw_data.ok THEN raw_data
        ELSE IF raw_data.val = None THEN Err("TypeError")
        ELSE Ok([p \in DOMAIN raw_data.val |-> CAbsSq(raw_data.val[p])])

\* The rest of get_fxs_photons once distribute has returned or raised.
FxsSynthesize ==
    /\ entry = "get_fxs_photons" /\ stack = <<>> /\ placed # NotYet /\ fxs = NotYet
    /\ \E u \in Draws :
        fxs' = IF ~placed.ok THEN placed
               ELSE LET handed == FxsIntensity(self, placed.val.state, placed.val.coords)
                    IN  IF ~handed.ok THEN handed
                        ELSE LET photons == add_correction_and_quantization(
                                                self, handed.val, u)
                             IN  IF ~photons.ok THEN photons
                                 ELSE Ok([handed |-> handed.val, draw |-> u,
                                          photons |-> photons.val])
    /\ UNCHANGED <<entry, particles, beam_focus_radius, jet_radius, stack, samples,
                   placed, detVars, initVars, callVars, meshVars>>

---------------------------------------------------------------------------
(* The placement specification: a detector initialized for one beam, the   *)
(* inputs of one call, and that call's steps.                              *)

\* The fields initialize_pixels_with_beam(beam) stores when it runs alone.
InitializedFor(beam) ==
    LET t == get_reciprocal_position_and_correction(
                 pixel_position, beam.Polarization, beam.wavevector,
                 pixel_area, orientation)
        intensity == beam.photons_per_pulse \div beam.focus_area
    IN  /\ pixel_position_reciprocal = t.ppr
        /\ pixel_distance_reciprocal = t.pdr
        /\ polarization_correction = t.pol
        /\ solid_angle_per_pixel = t.sa
        /\ linear_correction =
               [p \in Pixels |-> intensity * Thomson_factor * multiply(t.pol, t.sa).val[p]]
        /\ attrs = InitAttrs
        /\ initPc = 0 /\ initLocal = None
        /\ out = NoCall
        /\ kernelArg = [called |-> FALSE, arg |-> None]

InitPlace ==
    /\ \E beam \in Beams : InitializedFor(beam)
    /\ pixel_width = PyInt(0) /\ pixel_height = PyInt(0) /\ distance = 1
    /\ entry = ""
    /\ particles \in ParticleInputs
    /\ \E r \in RadiusInputs : beam_focus_radius = r[1] /\ jet_radius = r[2]
    /\ stack = <<>> /\ samples = 0 /\ placed = NotYet /\ fxs = NotYet
    /\ MeshIdle

NextPlace ==
    \/ CallDistribute
    \/ CallGetFxsPhotons
    \/ DistributeNegativeShape
    \/ DistributeSampleFree
    \/ DistributeSampleCollided
    \/ DistributeRecursionError
    \/ DistributeReturn
    \/ FxsSynthesize

SpecPlace == InitPlace /\ [][NextPlace]_vars

---------------------------------------------------------------------------
(* Reciprocal-mesh sizing, lines 347-379.                                  *)

\* np.min(a, axis) of a scalar a: the second positional argument is the
\* axis.  A float axis is refused (TypeError); of the integer axes a scalar
\* accepts only 0 (and -1), and the reduction then returns a itself.
np_min(a, axis) ==
    IF ~axis.int THEN Err("TypeError")
    ELSE IF axis.v \in {0, -1} THEN Ok(a)
    ELSE Err("AxisError")

RECURSIVE np_max(_)
np_max(s) ==
    IF Len(s) = 1 THEN s[1]
    ELSE LET m == np_max(Tail(s)) IN IF s[1] > m THEN s[1] ELSE m

\* Lines 358-361.  The length is the fraction <<num, den>>; a zero
\* denominator is the float inf that numpy's division by zero yields.
preferred_voxel_length(slf_distance, slf_pixel_width, slf_pixel_height, wv) ==
    LET voxel_length == Sqrt(SumSeq([k \in DOMAIN wv |-> wv[k] * wv[k]]))
        m == np_min(slf_pixel_width, slf_pixel_height)
    IN  IF ~m.ok THEN m
        ELSE Ok(<<voxel_length, slf_distance * m.val.v>>)

\* np.floor_divide(x, <<num, den>>) for x >= 0 and num > 0.
floor_divide(x, y) == IF y[2] = 0 THEN 0 ELSE (x * y[2]) \div y[1]

\* Lines 373-379.
preferred_reciprocal_mesh_number(slf, slf_distance, slf_pixel_width, slf_pixel_height, wv) ==
    LET voxel_length == preferred_voxel_length(slf_distance, slf_pixel_width,
                                               slf_pixel_height, wv)
    IN  IF ~voxel_length.ok THEN voxel_length
        ELSE IF slf.pixel_distance_reciprocal = None THEN Err("TypeError")
        ELSE LET reciprocal_space_range == np_max(slf.pixel_distance_reciprocal)
                 voxel_half_num_1d == floor_divide(reciprocal_space_range,
                                                   voxel_length.val) + 1
             IN  Ok(2 * voxel_half_num_1d + 1)

PreferredVoxelLength ==
    /\ mesh' = [op |-> "preferred_voxel_length",
                result |-> preferred_voxel_length(distance, pixel_width,
                                                  pixel_height, wave_vector)]
    /\ UNCHANGED <<wave_vector, detVars, initVars, callVars, placeVars>>

PreferredReciprocalMeshNumber ==
    /\ mesh' = [op |-> "preferred_reciprocal_mesh_number",
                result |-> preferred_reciprocal_mesh_number(
                               self, distance, pixel_width, pixel_height, wave_vector)]
    /\ UNCHANGED <<wave_vector, detVars, initVars, callVars, placeVars>>

\* The inputs: a detector of some pixel pitch, initialized for a beam, and a
\* wavevector of positive magnitude.
WaveVectors  == { <<0, 0, 1>>, <<0, 0, 2>>, <<3, 4, 0>> }
PixelWidths  == { PyInt(0), PyFloat(1), PyFloat(2) }
PixelHeights == { PyInt(0), PyInt(1), PyFloat(1), PyFloat(2) }
Distances    == { 1, 2 }

InitMesh ==
    /\ \E beam \in Beams : InitializedFor(beam)
    /\ pixel_width \in PixelWidths
    /\ pixel_height \in PixelHeights
    /\ distance \in Distances
    /\ wave_vector \in WaveVectors
    /\ mesh = [op |-> "", result |-> NotYet]
    /\ PlaceIdle

NextMesh ==
    \/ PreferredVoxelLength
    \/ PreferredReciprocalMeshNumber

SpecMesh == InitMesh /\ [][NextMesh]_vars

---------------------------------------------------------------------------
(* Properties                                                              *)

Abs(x) == IF x < 0 THEN -x ELSE x
SomeSet == \/ pixel_position_reciprocal # None
           \/ pixel_distance_reciprocal # None
           \/ polarization_correction # None
           \/ solid_angle_per_pixel # None
           \/ linear_correction # None

\* The five derived fields all come from one beam, and linear_correction is
\* (photons_per_pulse / focus_area) * Thomson_factor * polarization * solid
\* angle of the fields stored.
SameBeam(beam) ==
    LET t == get_reciprocal_position_and_correction(
                 pixel_position, beam.Polarization, beam.wavevector,
                 pixel_area, orientation)
    IN  /\ pixel_position_reciprocal = t.ppr
        /\ pixel_distance_reciprocal = t.pdr
        /\ polarization_correction = t.pol
        /\ solid_angle_per_pixel = t.sa
        /\ linear_correction =
               [p \in Pixels |->
                   (beam.photons_per_pulse \div beam.focus_area) * Thomson_factor
                   * polarization_correction[p] * solid_angle_per_pixel[p]]
Consistent == \E beam \in Beams : SameBeam(beam)

\* C1: whenever distribute returns (state, coords), every two distinct rows
\* of coords are at least 2 * radius_max apart, radius_max being maxRadius's
\* value -- also after a resample.
C1_ReturnedPlacementIsCollisionFree ==
    placed.ok =>
        LET coords == placed.val.coords
            r == maxRadius(particles)
        IN  \A i \in DOMAIN coords : \A j \in DOMAIN coords :
                i # j => NormSq(Sub(coords[i], coords[j])) * r[2] >= 4 * r[1]

\* C2: placement retries iteratively, so the depth of distribute's frames
\* does not grow with the rejections, and when the attempts run out it ends
\* in a signalled "placement unsatisfiable" error.
C2_BoundedIterativeRetry ==
    /\ Len(stack) <= 1
    /\ (samples > 0 /\ ~placed.ok /\ placed # NotYet)
           => placed.err = "PlacementUnsatisfiable"

\* C3: when the counts sum to N = 1, distribute samples exactly one
\* candidate set, never calls itself again, and returns one coordinate with
\* |x| <= beam_focus_radius, |y| <= beam_focus_radius, |z| <= jet_radius.
C3_SingleParticleNeverResamples ==
    TotalN(particles) = 1 =>
        /\ samples <= 1
        /\ Len(stack) <= 1
        /\ placed # NotYet =>
            /\ placed.ok
            /\ samples = 1
            /\ Len(placed.val.coords) = 1
            /\ Abs(placed.val.coords[1][1]) <= beam_focus_radius
            /\ Abs(placed.val.coords[1][2]) <= beam_focus_radius
            /\ Abs(placed.val.coords[1][3]) <= jet_radius

\* C3's case: one particle of positive radius placed, its z beyond the
\* beam focus radius, inside the jet radius.
C3_Witness ==
    /\ TotalN(particles) = 1
    /\ maxRadius(particles)[1] > 0
    /\ placed.ok
    /\ Abs(placed.val.coords[1][3]) > beam_focus_radius

\* C4: a pattern-synthesis call on a detector whose reciprocal geometry and
\* linear correction are still unset ends in an invalid-state error of the
\* detector's own, and does not reach the diffraction kernel.
C4_SynthesisBeforeInitializationRejected ==
    [][ ( /\ out' # out
          /\ out'.op \in {"get_pattern_without_corrections", "get_intensity_field",
                          "get_photons"}
          /\ pixel_position_reciprocal = None
          /\ linear_correction = None )
        => ( /\ out'.result = Err("InvalidStateError")
             /\ kernelArg' = kernelArg ) ]_vars

\* C5: distribute rejects a mapping with a count <= 0: it ends in an
\* invalid-input error and returns no placement.
C5_NonPositiveCountRejected ==
    (\E k \in DOMAIN particles : particles[k][2] <= 0) =>
        /\ ~placed.ok
        /\ placed # NotYet => placed.err = "ValueError"

\* C6: on an initialized detector the combined correction + quantization
\* returns what add_quantization returns on add_correction's result for the
\* same draws, for one frame and for a batch; get_photons returns that same
\* result for the kernel's raw intensity pattern.
C6_CombinedEqualsSequence ==
    [][ (out' # out /\ linear_correction # None) =>
          /\ out'.op = "add_correction_and_quantization" =>
                out'.result = add_quantization(
                                  self, add_correction(self, out'.arg).val, out'.draw)
          /\ out'.op = "add_correction_and_quantization_batch" =>
                out'.result = add_quantization_batch(
                                  self, add_correction_batch(self, out'.arg).val, out'.draw)
          /\ (out'.op = "get_photons" /\ pixel_position_reciprocal # None) =>
                out'.result = add_quantization(
                    self,
                    add_correction(
                        self,
                        get_pattern_without_corrections(self, out'.arg, "intensity").val
                    ).val,
                    out'.draw) ]_vars

\* C6's case: the combined call has returned photon counts for a pattern
\* that the correction changes.
C6_Witness ==
    /\ out.op = "add_correction_and_quantization"
    /\ out.result.ok
    /\ linear_correction # None
    /\ out.result.val # poisson(out.arg, out.draw)

\* C7: for a wavevector of positive magnitude and nonzero pixel width and
\* height, preferred_reciprocal_mesh_number returns the odd integer 2h + 1
\* with h = floor(max(pixel_distance_reciprocal) / voxel_length) + 1 and
\* voxel_length = |wavevector| / (distance * min(pixel_width, pixel_height)).
C7_MeshNumberIsOdd ==
    ( /\ mesh.op = "preferred_reciprocal_mesh_number"
      /\ pixel_width.v # 0 /\ pixel_height.v # 0 ) =>
        LET least == IF pixel_width.v < pixel_height.v THEN pixel_width.v
                     ELSE pixel_height.v
            h == (np_max(pixel_distance_reciprocal) * distance * least)
                     \div Sqrt(NormSq(wave_vector)) + 1
        IN  /\ mesh.result.ok
            /\ mesh.result.val = 2 * h + 1
            /\ mesh.result.val % 2 = 1
            /\ mesh.result.val >= 1

\* The coherent sum over the placed particles i..n of field times phase.
RECURSIVE CoherentSum(_, _, _, _)
CoherentSum(state, coords, pixel, i) ==
    IF i = 0 THEN <<0, 0>>
    ELSE CAdd(CoherentSum(state, coords, pixel, i - 1),
              CMul(StructureFactor(pixel_position_reciprocal[pixel], atom_pos(state[i])),
                   CExp(Dot(pixel_position_reciprocal[pixel], coords[i]))))

\* C8: the array get_fxs_photons hands to correction and quantization is,
\* per pixel, the squared magnitude of the complex sum over the placed
\* particles of field times position phase; for one species counted twice
\* with both instances at one coordinate it is 4 times the single-particle
\* intensity.
C8_FxsIntensityIsCoherent ==
    fxs.ok =>
        LET state  == placed.val.state
            coords == placed.val.coords
        IN  /\ \A p \in Pixels :
                  fxs.val.handed[p] = CAbsSq(CoherentSum(state, coords, p, Len(state)))
            /\ (Len(state) = 2 /\ state[1] = state[2] /\ coords[1] = coords[2]) =>
                  \A p \in Pixels :
                      fxs.val.handed[p] =
                          4 * CAbsSq(get_pattern_without_corrections(
                                         self, state[1], "complex_field").val[p])

\* C8's case: two instances of one species at one coordinate, with a
\* pattern that is not dark.
C8_Witness ==
    /\ fxs.ok
    /\ Len(placed.val.state) = 2
    /\ placed.val.state[1] = placed.val.state[2]
    /\ placed.val.coords[1] = placed.val.coords[2]
    /\ \E p \in Pixels : fxs.val.handed[p] > 0

\* The private field each accessor is meant to return, as set at
\* construction.
ConstructedField == [pedestals    |-> "_pedestal",
                     pixel_rms    |-> "_pixel_rms",
                     pixel_mask   |-> "_pixel_mask",
                     pixel_bkgd   |-> "_pixel_bkgd",
                     pixel_status |-> "_pixel_status",
                     pixel_gain   |-> "_pixel_gain"]

\* C9: reading a calibration accessor succeeds and returns the value stored
\* in the private field set at construction.
C9_AccessorsReturnStoredFields ==
    out.op \in Accessors => out.result = Ok(attrs[ConstructedField[out.op]])

\* C10 as stated: in every state, also while initialize_pixels_with_beam
\* runs, the derived fields that are set all belong to one beam.
C10_NeverPartiallyUpdated == SomeSet => Consistent

\* C10 amended: whenever no initialize_pixels_with_beam call is in progress
\* (the calls not overlapping one another), the derived fields are either
\* all unset or all those of one beam, with linear_correction the product of
\* the stored fields.
C10_ConsistentBetweenInitializations ==
    initPc = 0 => (IF SomeSet THEN Consistent ELSE self = [f \in DOMAIN self |-> None])

\* C10's case: the detector was initialized for one beam, a synthesis call
\* ran, and a later initialization for another beam has completed.
C10_Witness ==
    /\ initPc = 0
    /\ out.op = "get_intensity_field"
    /\ out.result.ok
    /\ Consistent
    /\ out.result # get_intensity_field(self, out.arg)

=============================================================================
